---- MODULE Spec2Model ----
(***************************************************************************)
(* Model of the json.query Conduit processor (processor.go).               *)
(*                                                                         *)
(* The processor holds a ProcessorConfig and one compiled query per        *)
(* backend.  Configure parses and compiles, Process maps a batch of        *)
(* records through processRecord and drops the records that fail.          *)
(*                                                                         *)
(* Values.  A Go interface{} holding JSON-like data is a tagged record     *)
(* [k, v]: k names the dynamic type that the type switches of              *)
(* processor.go look at, v is the Go value.  float64 numbers are carried   *)
(* as integer hundredths (425 stands for 4.25); Inf stands for the float   *)
(* +Inf, which encoding/json cannot encode.  A byte slice holding JSON     *)
(* text is carried as its sequence of lexical tokens, white space          *)
(* dropped.                                                                *)
(***************************************************************************)
EXTENDS Integers, Sequences, FiniteSets, TLC

\* Longest batch handed to Process.
MaxBatch == 2

----------------------------------------------------------------------------
(* Go values *)

Null == [k |-> "null"]
Bool(b) == [k |-> "bool", v |-> b]
Num(n) == [k |-> "num", v |-> n]
Inf == [k |-> "inf"]
Str(s) == [k |-> "str", v |-> s]
List(s) == [k |-> "list", v |-> s]
Map(f) == [k |-> "map", v |-> f]
\* a nested value of the named type opencdc.StructuredData
SData(f) == [k |-> "sdata", v |-> f]

\* opencdc.Data held by Payload.After: nil, StructuredData or RawData
NoData == [kind |-> "nil"]
StructuredData(f) == [kind |-> "StructuredData", val |-> f]
RawData(toks) == [kind |-> "RawData", val |-> toks]

\* Every object key of the model, in the byte order that gojq iterates in.
SortedKeys == <<"count", "email", "items", "name", "price", "result", "status", "user">>

\* String and number literals that the JSON lexer of the model knows.
StringPool == <<"John Doe", "john@example.com", "active", "apple", "banana",
                "orange", "status", "count", "user", "name">>
NumberPool == <<4200, 150, 75, 200, 425>>

----------------------------------------------------------------------------
(* encoding/json *)

\* strconv formatting of a non-negative float64 with at most two decimals
FormatNum(n) ==
    LET whole == n \div 100
        frac  == n % 100
    IN  IF frac = 0 THEN ToString(whole)
        ELSE IF frac % 10 = 0 THEN ToString(whole) \o "." \o ToString(frac \div 10)
        ELSE IF frac < 10 THEN ToString(whole) \o ".0" \o ToString(frac)
        ELSE ToString(whole) \o "." \o ToString(frac)

Quote(s) == "\"" \o s \o "\""

\* json.Marshal of a scalar result: [ok, val], val the encoded text.
\* NaN and the infinities are json.UnsupportedValueError.
Marshal(x) ==
    CASE x.k = "null" -> [ok |-> TRUE, val |-> <<"null">>]
      [] x.k = "bool" -> [ok |-> TRUE, val |-> <<IF x.v THEN "true" ELSE "false">>]
      [] x.k = "num"  -> [ok |-> TRUE, val |-> <<FormatNum(x.v)>>]
      [] x.k = "str"  -> [ok |-> TRUE, val |-> <<Quote(x.v)>>]
      [] OTHER        -> [ok |-> FALSE, val |-> <<>>]

\* the lexemes of the known literals
StrToks == [i \in 1..Len(StringPool) |-> Quote(StringPool[i])]
NumToks == [i \in 1..Len(NumberPool) |-> FormatNum(NumberPool[i])]

IsStrTok(t) == \E i \in 1..Len(StrToks) : StrToks[i] = t
UnquoteTok(t) == StringPool[CHOOSE i \in 1..Len(StrToks) : StrToks[i] = t]
IsNumTok(t) == \E i \in 1..Len(NumToks) : NumToks[i] = t
NumOfTok(t) == NumberPool[CHOOSE i \in 1..Len(NumToks) : NumToks[i] = t]

ParseFail == [ok |-> FALSE, val |-> Null, rest |-> <<>>]

RECURSIVE ParseValue(_), ParseMembers(_, _), ParseElems(_, _)

\* one JSON value at the head of the token sequence
ParseValue(ts) ==
    IF ts = <<>> THEN ParseFail
    ELSE LET t == Head(ts) IN
      CASE t = "{"      -> IF Len(ts) >= 2 /\ ts[2] = "}"
                           THEN [ok |-> TRUE, val |-> Map(<<>>), rest |-> Tail(Tail(ts))]
                           ELSE ParseMembers(Tail(ts), <<>>)
        [] t = "["      -> IF Len(ts) >= 2 /\ ts[2] = "]"
                           THEN [ok |-> TRUE, val |-> List(<<>>), rest |-> Tail(Tail(ts))]
                           ELSE ParseElems(Tail(ts), <<>>)
        [] t = "null"   -> [ok |-> TRUE, val |-> Null, rest |-> Tail(ts)]
        [] t = "true"   -> [ok |-> TRUE, val |-> Bool(TRUE), rest |-> Tail(ts)]
        [] t = "false"  -> [ok |-> TRUE, val |-> Bool(FALSE), rest |-> Tail(ts)]
        [] IsStrTok(t)  -> [ok |-> TRUE, val |-> Str(UnquoteTok(t)), rest |-> Tail(ts)]
        [] IsNumTok(t)  -> [ok |-> TRUE, val |-> Num(NumOfTok(t)), rest |-> Tail(ts)]
        [] OTHER        -> ParseFail

\* "key": value pairs up to the closing brace; a repeated key keeps the last
ParseMembers(ts, acc) ==
    IF Len(ts) < 3 \/ ~IsStrTok(ts[1]) \/ ts[2] # ":" THEN ParseFail
    ELSE LET pv == ParseValue(SubSeq(ts, 3, Len(ts))) IN
      IF ~pv.ok \/ pv.rest = <<>> THEN ParseFail
      ELSE LET m == (UnquoteTok(ts[1]) :> pv.val) @@ acc IN
        CASE Head(pv.rest) = "}" -> [ok |-> TRUE, val |-> Map(m), rest |-> Tail(pv.rest)]
          [] Head(pv.rest) = "," -> ParseMembers(Tail(pv.rest), m)
          [] OTHER               -> ParseFail

\* values up to the closing bracket
ParseElems(ts, acc) ==
    LET pv == ParseValue(ts) IN
      IF ~pv.ok \/ pv.rest = <<>> THEN ParseFail
      ELSE LET l == Append(acc, pv.val) IN
        CASE Head(pv.rest) = "]" -> [ok |-> TRUE, val |-> List(l), rest |-> Tail(pv.rest)]
          [] Head(pv.rest) = "," -> ParseElems(Tail(pv.rest), l)
          [] OTHER               -> ParseFail

\* json.Unmarshal(payload, &data): one value and nothing after it
Unmarshal(toks) ==
    LET pv == ParseValue(toks) IN
      IF pv.ok /\ pv.rest = <<>> THEN [ok |-> TRUE, val |-> pv.val]
      ELSE [ok |-> FALSE, val |-> Null]

----------------------------------------------------------------------------
(* processor.go: payload normalisation *)

RECURSIVE convertStructuredData(_)

\* StructuredData and map[string]interface{} become fresh plain maps,
\* []interface{} a fresh slice, anything else is returned as it is
convertStructuredData(data) ==
    CASE data.k \in {"sdata", "map"} ->
           Map([key \in DOMAIN data.v |-> convertStructuredData(data.v[key])])
      [] data.k = "list" ->
           List([i \in 1..Len(data.v) |-> convertStructuredData(data.v[i])])
      [] OTHER -> data

RECURSIVE convertStructuredDataSource(_)

\* convertStructuredDataSource with each converted value stored back into
\* the map or slice it was read from
convertStructuredDataSource_InPlace(data) == convertStructuredData(data)

\* the argument of convertStructuredData as the call leaves it: every
\* converted value is stored into the fresh result, the map or slice that
\* is ranged over is only read, and so are the values below it
convertStructuredDataSource(data) ==
    CASE data.k \in {"sdata", "map"} ->
           [data EXCEPT !.v = [key \in DOMAIN data.v |->
                                  convertStructuredDataSource(data.v[key])]]
      [] data.k = "list" ->
           [data EXCEPT !.v = [i \in 1..Len(data.v) |->
                                  convertStructuredDataSource(data.v[i])]]
      [] OTHER -> data

\* record.Payload.After as processRecord's "Extract payload data" leaves it:
\* json.Unmarshal reads the bytes, a nil payload is only tested
payloadSource(after) ==
    IF after.kind = "StructuredData"
    THEN StructuredData(convertStructuredDataSource(SData(after.val)).v)
    ELSE after

\* processRecord, "Extract payload data": [err, data]; err = "" is success
extractPayload(after) ==
    CASE after.kind = "nil" ->
           [err |-> "no data in record.Payload.After", data |-> Null]
      [] after.kind = "StructuredData" ->
           [err |-> "", data |-> convertStructuredData(SData(after.val))]
      [] after.kind = "RawData" ->
           LET u == Unmarshal(after.val) IN
             IF u.ok THEN [err |-> "", data |-> u.val]
             ELSE [err |-> "invalid JSON payload", data |-> Null]
      [] OTHER ->
           [err |-> "unsupported payload type", data |-> Null]

----------------------------------------------------------------------------
(* The two query engines.  A compiled query is a small syntax tree; nil is  *)
(* the Go nil pointer.                                                      *)

Nil == [op |-> "nil"]
Path(fields) == [op |-> "path", fields |-> fields]
Abs(fields) == [op |-> "abs", fields |-> fields]
Iter(fields) == [op |-> "iter", fields |-> fields]
MapAdd(fields, f) == [op |-> "mapadd", fields |-> fields, of |-> f]
Comma(l, r) == [op |-> "comma", l |-> l, r |-> r]
Empty == [op |-> "empty"]
Infinite == [op |-> "infinite"]
Call(name) == [op |-> "call", name |-> name]

\* jmespath.Compile: [ok, ast]
jmespathCompile(q) ==
    CASE q = "user.name"  -> [ok |-> TRUE, ast |-> Path(<<"user", "name">>)]
      [] q = "status"     -> [ok |-> TRUE, ast |-> Path(<<"status">>)]
      [] q = "items"      -> [ok |-> TRUE, ast |-> Path(<<"items">>)]
      [] q = "abs(count)" -> [ok |-> TRUE, ast |-> Abs(<<"count">>)]
      [] OTHER            -> [ok |-> FALSE, ast |-> Nil]

\* gojq.Parse: [ok, ast].  Parse checks the syntax only: a name that is not
\* a jq function parses, and is reported by Query.Run for each input.
gojqParse(q) ==
    CASE q = ".user"      -> [ok |-> TRUE, ast |-> Path(<<"user">>)]
      [] q = ".items[]"   -> [ok |-> TRUE, ast |-> Iter(<<"items">>)]
      [] q = ".items | map(.price) | add"
                          -> [ok |-> TRUE, ast |-> MapAdd(<<"items">>, "price")]
      [] q = ".count.x, .status"
                          -> [ok |-> TRUE, ast |-> Comma(Path(<<"count", "x">>), Path(<<"status">>))]
      [] q = "empty"      -> [ok |-> TRUE, ast |-> Empty]
      [] q = "infinite"   -> [ok |-> TRUE, ast |-> Infinite]
      [] q = "status"     -> [ok |-> TRUE, ast |-> Call("status")]
      [] OTHER            -> [ok |-> FALSE, ast |-> Nil]

RECURSIVE jmesField(_, _)

\* JMESPath field chain: a missing key, and a field of a non-object, is null
jmesField(fields, v) ==
    IF fields = <<>> THEN v
    ELSE IF v.k = "map" /\ Head(fields) \in DOMAIN v.v
         THEN jmesField(Tail(fields), v.v[Head(fields)])
         ELSE Null

\* jmesSearch reporting a path that matches nothing as an error
jmesSearch_MissingIsError(ast, data) ==
    CASE ast.op = "path" ->
           LET r == jmesField(ast.fields, data) IN
             IF r.k = "null" THEN [ok |-> FALSE, val |-> Null]
             ELSE [ok |-> TRUE, val |-> r]
      [] ast.op = "abs"  ->
           LET a == jmesField(ast.fields, data) IN
             IF a.k = "num" THEN [ok |-> TRUE, val |-> Num(IF a.v < 0 THEN -a.v ELSE a.v)]
             ELSE [ok |-> FALSE, val |-> Null]

\* (*JMESPath).Search: [ok, val]
jmesSearch(ast, data) ==
    CASE ast.op = "path" -> [ok |-> TRUE, val |-> jmesField(ast.fields, data)]
      [] ast.op = "abs"  ->
           LET a == jmesField(ast.fields, data) IN
             IF a.k = "num" THEN [ok |-> TRUE, val |-> Num(IF a.v < 0 THEN -a.v ELSE a.v)]
             ELSE [ok |-> FALSE, val |-> Null]

\* One element of a gojq result sequence: a value, or an error in band
Val(v) == [ok |-> TRUE, val |-> v]
ErrVal == [ok |-> FALSE, val |-> Null]

RECURSIVE jqField(_, _)

\* jq .a.b: a field of an object or of null; of anything else an error
jqField(fields, v) ==
    IF fields = <<>> THEN Val(v)
    ELSE CASE v.k = "map"  -> jqField(Tail(fields),
                                 IF Head(fields) \in DOMAIN v.v THEN v.v[Head(fields)] ELSE Null)
           [] v.k = "null" -> jqField(Tail(fields), Null)
           [] OTHER        -> ErrVal

\* jq .[]: the elements of a list, the values of an object in key order
jqIterate(v) ==
    CASE v.k = "list" -> [i \in 1..Len(v.v) |-> Val(v.v[i])]
      [] v.k = "map"  -> LET keys == SelectSeq(SortedKeys, LAMBDA key : key \in DOMAIN v.v)
                         IN  [i \in 1..Len(keys) |-> Val(v.v[keys[i]])]
      [] OTHER        -> <<ErrVal>>

\* jqAdd returning its right operand instead of the sum
jqAdd_KeepRight(a, b) ==
    CASE ~a.ok \/ ~b.ok -> ErrVal
      [] OTHER          -> b

\* jq a + b
jqAdd(a, b) ==
    CASE ~a.ok \/ ~b.ok                 -> ErrVal
      [] a.val.k = "null"               -> b
      [] b.val.k = "null"               -> a
      [] a.val.k = "num" /\ b.val.k = "num" -> Val(Num(a.val.v + b.val.v))
      [] a.val.k = "str" /\ b.val.k = "str" -> Val(Str(a.val.v \o b.val.v))
      [] OTHER                          -> ErrVal

RECURSIVE jqAddAll(_, _)

jqAddAll(items, acc) ==
    IF items = <<>> THEN acc
    ELSE jqAddAll(Tail(items), jqAdd(acc, Head(items)))

\* map(.f) | add over one value
jqMapAdd(v, f) ==
    LET elems == jqIterate(v) IN
      jqAddAll([i \in 1..Len(elems) |->
                   IF elems[i].ok THEN jqField(<<f>>, elems[i].val) ELSE ErrVal],
               Val(Null))

RECURSIVE jqRun(_, _)

\* (*Query).Run: the whole result sequence that the iterator would yield
jqRun(ast, data) ==
    CASE ast.op = "path"     -> <<jqField(ast.fields, data)>>
      [] ast.op = "iter"     -> LET p == jqField(ast.fields, data)
                                IN  IF p.ok THEN jqIterate(p.val) ELSE <<ErrVal>>
      [] ast.op = "mapadd"   -> LET p == jqField(ast.fields, data)
                                IN  IF p.ok THEN <<jqMapAdd(p.val, ast.of)>> ELSE <<ErrVal>>
      [] ast.op = "comma"    -> jqRun(ast.l, data) \o jqRun(ast.r, data)
      [] ast.op = "empty"    -> <<>>
      [] ast.op = "infinite" -> <<Val(Inf)>>
      [] ast.op = "call"     -> <<ErrVal>>

\* strings.ToLower on the type names of the model
ToLower(s) == IF s = "JQ" THEN "jq" ELSE s

----------------------------------------------------------------------------
(* Inputs *)

\* config.Config values handed to Configure: the six of processor_test.go,
\* further queries for each engine, and settings with a key left out
ConfigPool == <<
    [type |-> "jmespath", query |-> "user.name"],
    [type |-> "jmespath", query |-> "status"],
    [type |-> "jmespath", query |-> "items"],
    [type |-> "jmespath", query |-> "abs(count)"],
    [type |-> "jmespath", query |-> "[invalid"],
    [type |-> "jq", query |-> ".user"],
    [type |-> "jq", query |-> ".items[]"],
    [type |-> "jq", query |-> ".items | map(.price) | add"],
    [type |-> "jq", query |-> ".count.x, .status"],
    [type |-> "jq", query |-> "empty"],
    [type |-> "jq", query |-> "infinite"],
    [type |-> "jq", query |-> "status"],
    [type |-> "jq", query |-> ".[invalid"],
    [type |-> "invalid", query |-> "user.name"],
    [type |-> "JQ", query |-> ".user"],
    [type |-> "jmespath"],
    [query |-> ".user"] >>

\* opencdc.Record: Position, Operation, Metadata, Key, Payload.Before and
\* Payload.After
Record(pos, after) ==
    [Position |-> pos, Operation |-> "create", Metadata |-> [source |-> pos],
     Key |-> RawData(<<pos>>), Before |-> NoData, After |-> after]

\* the records of processor_test.go, the first with its user typed as a
\* nested StructuredData, and one without a payload
RecordPool == <<
    Record("test-pos-1", StructuredData(
        [user |-> SData([name |-> Str("John Doe"), email |-> Str("john@example.com")])])),
    Record("test-pos-2", StructuredData(
        [items |-> List(<<Map([name |-> Str("apple"), price |-> Num(150)]),
                          Map([name |-> Str("banana"), price |-> Num(75)]),
                          Map([name |-> Str("orange"), price |-> Num(200)])>>)])),
    Record("test-pos-3", RawData(
        <<"{", "\"status\"", ":", "\"active\"", ",", "\"count\"", ":", "42", "}">>)),
    Record("test-pos-4", RawData(<<"invalid", "json">>)),
    Record("test-pos-6", NoData) >>

\* batches: the sequences of up to MaxBatch different pool records
Batches ==
    UNION {{ix \in [1..n -> 1..Len(RecordPool)] :
               \A i, j \in 1..n : ix[i] = ix[j] => i = j} : n \in 0..MaxBatch}
BatchOf(ix) == [i \in 1..Len(ix) |-> RecordPool[ix[i]]]

----------------------------------------------------------------------------
(* Processor *)

VARIABLES
    config,        \* p.config: [Type, Query]
    jmesCompiled,  \* p.jmesCompiled
    jqCompiled,    \* p.jqCompiled
    lastCall,      \* the method called last
    cfgArg,        \* argument of the last call, if Configure
    cfgErr,        \* its returned error, "" for nil
    records,       \* argument of the last call, if Process, as it was passed
    callerRecords, \* the caller's slice of records when the call ended
    results,       \* its returned records
    logged,        \* the error log lines it wrote: [position, err]
    pulls,         \* per record, the iter.Next calls made
    panicked       \* the call ended in a nil pointer dereference

vars == <<config, jmesCompiled, jqCompiled, lastCall, cfgArg,
          cfgErr, records, callerRecords, results, logged, pulls, panicked>>

NoCfg == [none |-> "none"]

\* NewProcessor: &Processor{}
Init ==
    /\ config = [Type |-> "", Query |-> ""]
    /\ jmesCompiled = Nil
    /\ jqCompiled = Nil
    /\ lastCall = "NewProcessor"
    /\ cfgArg = NoCfg
    /\ cfgErr = ""
    /\ records = <<>>
    /\ callerRecords = <<>>
    /\ results = <<>>
    /\ logged = <<>>
    /\ pulls = <<>>
    /\ panicked = FALSE

\* sdk.ParseConfig against Specification().Parameters: both parameters are
\* required and "type" must be one of the listed names; TRUE when it fails
ParseConfigFails(cfg) ==
    \/ "type" \notin DOMAIN cfg
    \/ "query" \notin DOMAIN cfg
    \/ cfg["type"] \notin {"jmespath", "jq"}

\* ConfigureResult with the error of gojq.Parse dropped
ConfigureResult_JqErrDropped(cfg, oldConfig, oldJmes, oldJq) ==
    IF ParseConfigFails(cfg)
    THEN [err |-> "failed to parse config", config |-> oldConfig,
          jmes |-> oldJmes, jq |-> oldJq]
    ELSE LET c == [Type |-> cfg["type"], Query |-> cfg["query"]] IN
      CASE ToLower(c.Type) = "jmespath" ->
             LET r == jmespathCompile(c.Query) IN
               [err |-> IF r.ok THEN "" ELSE "invalid JMESPath expression",
                config |-> c, jmes |-> r.ast, jq |-> oldJq]
        [] ToLower(c.Type) = "jq" ->
             LET r == gojqParse(c.Query) IN
               [err |-> "", config |-> c, jmes |-> oldJmes, jq |-> r.ast]
        [] OTHER ->
             [err |-> "unsupported query type", config |-> c,
              jmes |-> oldJmes, jq |-> oldJq]

\* Configure's effect and return: [err, config, jmes, jq]
ConfigureResult(cfg, oldConfig, oldJmes, oldJq) ==
    IF ParseConfigFails(cfg)
    THEN [err |-> "failed to parse config", config |-> oldConfig,
          jmes |-> oldJmes, jq |-> oldJq]
    ELSE LET c == [Type |-> cfg["type"], Query |-> cfg["query"]] IN
      CASE ToLower(c.Type) = "jmespath" ->
             LET r == jmespathCompile(c.Query) IN
               [err |-> IF r.ok THEN "" ELSE "invalid JMESPath expression",
                config |-> c, jmes |-> r.ast, jq |-> oldJq]
        [] ToLower(c.Type) = "jq" ->
             LET r == gojqParse(c.Query) IN
               [err |-> IF r.ok THEN "" ELSE "invalid jq expression",
                config |-> c, jmes |-> oldJmes,
                jq |-> IF r.ok THEN r.ast ELSE oldJq]
        [] OTHER ->
             [err |-> "unsupported query type", config |-> c,
              jmes |-> oldJmes, jq |-> oldJq]

Configure(cfg) ==
    /\ ~panicked
    /\ LET r == ConfigureResult(cfg, config, jmesCompiled, jqCompiled) IN
         /\ config' = r.config
         /\ jmesCompiled' = r.jmes
         /\ jqCompiled' = r.jq
         /\ cfgErr' = r.err
    /\ lastCall' = "Configure"
    /\ cfgArg' = cfg
    /\ records' = <<>>
    /\ callerRecords' = <<>>
    /\ results' = <<>>
    /\ logged' = <<>>
    /\ pulls' = <<>>
    /\ UNCHANGED panicked

\* jqFirst calling iter.Next until a value that is not an error comes
jqFirst_SkipErrors(items) ==
    LET oks == {n \in 1..Len(items) : items[n].ok} IN
      IF oks = {}
      THEN [status |-> "err",
            err |-> IF items = <<>> THEN "jq query produced no results" ELSE "jq query failed",
            result |-> Null, pulls |-> Len(items) + 1]
      ELSE LET n == CHOOSE n \in oks : \A m \in oks : n <= m IN
             [status |-> "ok", err |-> "", result |-> items[n].val, pulls |-> n]

\* processRecord, jq case: the first value of the iterator.
\* [status, err, result, pulls]
jqFirst(items) ==
    IF items = <<>>
    THEN [status |-> "err", err |-> "jq query produced no results", result |-> Null, pulls |-> 1]
    ELSE IF ~items[1].ok
    THEN [status |-> "err", err |-> "jq query failed", result |-> Null, pulls |-> 1]
    ELSE [status |-> "ok", err |-> "", result |-> items[1].val, pulls |-> 1]

\* processRecord, "Apply query based on configured type"
applyQuery(cfg, jmes, jq, data) ==
    CASE ToLower(cfg.Type) = "jmespath" ->
           IF jmes = Nil
           THEN [status |-> "panic", err |-> "", result |-> Null, pulls |-> 0]
           ELSE LET r == jmesSearch(jmes, data) IN
             IF r.ok THEN [status |-> "ok", err |-> "", result |-> r.val, pulls |-> 0]
             ELSE [status |-> "err", err |-> "JMESPath query failed", result |-> Null, pulls |-> 0]
      [] ToLower(cfg.Type) = "jq" ->
           IF jq = Nil
           THEN [status |-> "panic", err |-> "", result |-> Null, pulls |-> 0]
           ELSE jqFirst(jqRun(jq, data))
      [] OTHER ->
           [status |-> "ok", err |-> "", result |-> Null, pulls |-> 0]

\* encodeResult with every result marshalled, strings by their bytes
encodeResult_BareString(result) ==
    CASE result.k = "map"  -> [err |-> "", after |-> StructuredData(result.v)]
      [] result.k = "list" -> [err |-> "", after |-> StructuredData([result |-> result])]
      [] result.k = "str"  -> [err |-> "", after |-> RawData(<<result.v>>)]
      [] OTHER ->
           LET m == Marshal(result) IN
             IF m.ok THEN [err |-> "", after |-> RawData(m.val)]
             ELSE [err |-> "failed to marshal result", after |-> NoData]

\* encodeResult with the list case storing the list without the wrapping map
encodeResult_ListBare(result) ==
    CASE result.k = "map"  -> [err |-> "", after |-> StructuredData(result.v)]
      [] result.k = "list" -> [err |-> "", after |-> StructuredData(result.v)]
      [] OTHER ->
           LET m == Marshal(result) IN
             IF m.ok THEN [err |-> "", after |-> RawData(m.val)]
             ELSE [err |-> "failed to marshal result", after |-> NoData]

\* encodeResult with the map case wrapped like the list case
encodeResult_MapWrapped(result) ==
    CASE result.k \in {"map", "list"} ->
           [err |-> "", after |-> StructuredData([result |-> result])]
      [] OTHER ->
           LET m == Marshal(result) IN
             IF m.ok THEN [err |-> "", after |-> RawData(m.val)]
             ELSE [err |-> "failed to marshal result", after |-> NoData]

\* processRecord, "Set the result based on its type": [err, after]
encodeResult(result) ==
    CASE result.k = "map"  -> [err |-> "", after |-> StructuredData(result.v)]
      [] result.k = "list" -> [err |-> "", after |-> StructuredData([result |-> result])]
      [] OTHER ->
           LET m == Marshal(result) IN
             IF m.ok THEN [err |-> "", after |-> RawData(m.val)]
             ELSE [err |-> "failed to marshal result", after |-> NoData]

\* processRecord: [status, err, rec, pulls, arg].  rec is recordCopy, the
\* copy of the record struct whose Payload.After is assigned; arg is the
\* caller's record, with what its payload refers to, as the call leaves it
processRecord(cfg, jmes, jq, record) ==
    LET p == extractPayload(record.After)
        a == [record EXCEPT !.After = payloadSource(record.After)]
    IN
      IF p.err # ""
      THEN [status |-> "err", err |-> p.err, rec |-> record, pulls |-> 0, arg |-> a]
      ELSE LET q == applyQuery(cfg, jmes, jq, p.data) IN
        IF q.status # "ok"
        THEN [status |-> q.status, err |-> q.err, rec |-> record, pulls |-> q.pulls,
              arg |-> a]
        ELSE LET e == encodeResult(q.result) IN
          IF e.err # ""
          THEN [status |-> "err", err |-> e.err, rec |-> record, pulls |-> q.pulls,
                arg |-> a]
          ELSE [status |-> "ok", err |-> "",
                rec |-> [record EXCEPT !.After = e.after], pulls |-> q.pulls,
                arg |-> a]

\* processStep with the "continue" of the error branch left out
processStep_NoContinue(acc, r, record) ==
    CASE r.status = "panic" -> [acc EXCEPT !.panicked = TRUE, !.input = Append(@, r.arg)]
      [] r.status = "err" ->
           [acc EXCEPT !.logged = Append(@, [position |-> record.Position, err |-> r.err]),
                       !.results = Append(@, r.rec),
                       !.pulls = Append(@, r.pulls),
                       !.input = Append(@, r.arg)]
      [] OTHER ->
           [acc EXCEPT !.results = Append(@, r.rec),
                       !.pulls = Append(@, r.pulls),
                       !.input = Append(@, r.arg)]

\* processStep with the error branch emptying the results
processStep_ResetOnError(acc, r, record) ==
    CASE r.status = "panic" -> [acc EXCEPT !.panicked = TRUE, !.input = Append(@, r.arg)]
      [] r.status = "err" ->
           [acc EXCEPT !.logged = Append(@, [position |-> record.Position, err |-> r.err]),
                       !.results = <<>>,
                       !.pulls = Append(@, r.pulls),
                       !.input = Append(@, r.arg)]
      [] OTHER ->
           [acc EXCEPT !.results = Append(@, r.rec),
                       !.pulls = Append(@, r.pulls),
                       !.input = Append(@, r.arg)]

\* Process, one turn of the range loop over acc = [results, logged, pulls,
\* panicked, input]; input is the part of the caller's slice gone through
processStep(acc, r, record) ==
    CASE r.status = "panic" -> [acc EXCEPT !.panicked = TRUE, !.input = Append(@, r.arg)]
      [] r.status = "err" ->
           [acc EXCEPT !.logged = Append(@, [position |-> record.Position, err |-> r.err]),
                       !.pulls = Append(@, r.pulls),
                       !.input = Append(@, r.arg)]
      [] OTHER ->
           [acc EXCEPT !.results = Append(@, r.rec),
                       !.pulls = Append(@, r.pulls),
                       !.input = Append(@, r.arg)]

\* results := make([]sdk.ProcessedRecord, 0, len(records)), nothing logged
NewAcc ==
    [results |-> <<>>, logged |-> <<>>, pulls |-> <<>>, panicked |-> FALSE,
     input |-> <<>>]

RECURSIVE processLoop(_, _, _, _, _, _)

processLoop(cfg, jmes, jq, batch, i, acc) ==
    IF i > Len(batch) \/ acc.panicked THEN acc
    ELSE processLoop(cfg, jmes, jq, batch, i + 1,
                     processStep(acc, processRecord(cfg, jmes, jq, batch[i]), batch[i]))

Process(batch) ==
    /\ ~panicked
    /\ LET out == processLoop(config, jmesCompiled, jqCompiled, batch, 1, NewAcc) IN
         /\ results' = IF out.panicked THEN <<>> ELSE out.results
         /\ logged' = out.logged
         /\ pulls' = out.pulls
         /\ panicked' = out.panicked
         /\ callerRecords' = out.input \o SubSeq(batch, Len(out.input) + 1, Len(batch))
    /\ records' = batch
    /\ lastCall' = "Process"
    /\ cfgArg' = NoCfg
    /\ cfgErr' = ""
    /\ UNCHANGED <<config, jmesCompiled, jqCompiled>>

Open ==
    /\ ~panicked
    /\ lastCall' = "Open"
    /\ cfgArg' = NoCfg
    /\ cfgErr' = ""
    /\ records' = <<>>
    /\ callerRecords' = <<>>
    /\ results' = <<>>
    /\ logged' = <<>>
    /\ pulls' = <<>>
    /\ UNCHANGED <<config, jmesCompiled, jqCompiled, panicked>>

\* Teardown releasing the compiled queries
Teardown_ClearsQueries ==
    /\ ~panicked
    /\ lastCall' = "Teardown"
    /\ cfgArg' = NoCfg
    /\ cfgErr' = ""
    /\ records' = <<>>
    /\ callerRecords' = <<>>
    /\ results' = <<>>
    /\ logged' = <<>>
    /\ pulls' = <<>>
    /\ jmesCompiled' = Nil
    /\ jqCompiled' = Nil
    /\ UNCHANGED <<config, panicked>>

Teardown ==
    /\ ~panicked
    /\ lastCall' = "Teardown"
    /\ cfgArg' = NoCfg
    /\ cfgErr' = ""
    /\ records' = <<>>
    /\ callerRecords' = <<>>
    /\ results' = <<>>
    /\ logged' = <<>>
    /\ pulls' = <<>>
    /\ UNCHANGED <<config, jmesCompiled, jqCompiled, panicked>>

Next ==
    \/ \E c \in 1..Len(ConfigPool) : Configure(ConfigPool[c])
    \/ \E ix \in Batches : Process(BatchOf(ix))
    \/ Open
    \/ Teardown

Spec == Init /\ [][Next]_vars

----------------------------------------------------------------------------
(* What the last Process call did, record by record *)

Called == lastCall = "Process"
Returned == lastCall = "Process" /\ ~panicked

Indices == 1..Len(records)
\* the input record that an output record was made from (positions of a
\* batch are different)
HasInput(out) == \E i \in Indices : records[i].Position = out.Position
InputIdx(out) == CHOOSE i \in Indices : records[i].Position = out.Position
OutputsOf(i) == {j \in 1..Len(results) : results[j].Position = records[i].Position}

Normalized(i) == extractPayload(records[i].After)
Normalizes(i) == Normalized(i).err = ""
Evaluated(i) == applyQuery(config, jmesCompiled, jqCompiled, Normalized(i).data)
Evaluates(i) == Normalizes(i) /\ Evaluated(i).status = "ok"
Encodes(i) == Evaluates(i) /\ encodeResult(Evaluated(i).result).err = ""
Fails(i) == processRecord(config, jmesCompiled, jqCompiled, records[i]).status = "err"

IsScalar(v) == v.k \in {"null", "bool", "num", "str"}

\* the indices i of the batch with Keep(i), in batch order
Kept(Keep(_)) == SelectSeq([i \in 1..Len(records) |-> i], Keep)

\* results holds one record for each kept index and for no other, in order
OneOutputEach(Keep(_)) ==
    LET kept == Kept(Keep) IN
      /\ Len(results) = Len(kept)
      /\ \A j \in 1..Len(kept) :
            j <= Len(results) => results[j].Position = records[kept[j]].Position
      /\ Len(results) <= Len(records)
      /\ (records = <<>> => results = <<>>)

----------------------------------------------------------------------------
\* C1 (as stated): a batch's output has exactly one record for each input
\* record whose payload normalizes and whose query evaluates successfully,
\* none for any other, in input order.
C1_AsStated == Called => OneOutputEach(Evaluates)

\* C1 (amended): a batch's output has exactly one record for each input
\* record whose payload normalizes, whose query evaluates successfully and
\* whose result encodes, none for any other record, in input order; it is
\* never longer than the input and is empty for an empty batch.
C1_OutputPerSurvivor == Called => OneOutputEach(Encodes)

\* a returned batch in which a dropped record precedes a surviving one, and
\* one record evaluated but did not encode
C1_Witness ==
    /\ Returned
    /\ Len(records) = 2
    /\ Len(results) = 1
    /\ results[1].Position = records[2].Position

----------------------------------------------------------------------------
\* the query result that an output record was encoded from
ResultOf(out) == Evaluated(InputIdx(out)).result

\* the JSON text of a scalar: null, true, false, the decimal digits of a
\* number, a string between double quotes
JSONText(v) ==
    CASE v.k = "null" -> "null"
      [] v.k = "bool" -> IF v.v THEN "true" ELSE "false"
      [] v.k = "num"  -> FormatNum(v.v)
      [] v.k = "str"  -> "\"" \o v.v \o "\""

C4_MapIsStored ==
    Returned =>
      \A j \in 1..Len(results) :
        (HasInput(results[j]) /\ ResultOf(results[j]).k = "map") =>
          /\ results[j].After.kind = "StructuredData"
          /\ DOMAIN results[j].After.val = DOMAIN ResultOf(results[j]).v
          /\ \A key \in DOMAIN ResultOf(results[j]).v :
                results[j].After.val[key] = ResultOf(results[j]).v[key]

\* an output made from the user map
C4_Witness ==
    /\ Returned
    /\ \E j \in 1..Len(results) :
          /\ ResultOf(results[j]).k = "map"
          /\ DOMAIN ResultOf(results[j]).v = {"name", "email"}
          /\ results[j].After.kind = "StructuredData"

----------------------------------------------------------------------------
\* the query compiles for the backend: jmespath.Compile, gojq.Parse succeed
Compiles(t, q) == IF t = "jmespath" THEN jmespathCompile(q).ok ELSE gojqParse(q).ok

\* the configurations that C5 says are rejected
MustReject(cfg) ==
    \/ "type" \notin DOMAIN cfg
    \/ "query" \notin DOMAIN cfg
    \/ cfg["type"] \notin {"jmespath", "jq"}
    \/ ~Compiles(cfg["type"], cfg["query"])

----------------------------------------------------------------------------
\* the batch without its i-th record
Without(i) ==
    [k \in 1..(Len(records) - 1) |-> IF k < i THEN records[k] ELSE records[k + 1]]

LoggedFor(i) == {l \in 1..Len(logged) : logged[l].position = records[i].Position}

\* C6: a record of the batch that fails in processRecord (no payload, raw
\* bytes that are not JSON, or a failed evaluation) has no output record
\* and is handled once; Process returns or panics as it does on the batch
\* without that record, and returns the same output records.
C6_FailureIsolated ==
    Called =>
      \A i \in Indices : Fails(i) =>
        LET alone == processLoop(config, jmesCompiled, jqCompiled, Without(i), 1, NewAcc) IN
          /\ panicked = alone.panicked
          /\ Returned =>
               /\ OutputsOf(i) = {}
               /\ results = alone.results
               /\ Cardinality(LoggedFor(i)) = 1
               /\ Len(pulls) = Len(records)

\* a returned batch with a record of undecodable bytes and a sibling that
\* has an output record
C6_Witness ==
    /\ Returned
    /\ \E i, k \in Indices :
          /\ Fails(i)
          /\ \E l \in LoggedFor(i) : logged[l].err = "invalid JSON payload"
          /\ OutputsOf(k) # {}

----------------------------------------------------------------------------
\* C7: whenever the stored configuration selects a backend, the compiled
\* query of that backend is present, whatever Configure calls were made.
C7_SelectedBackendCompiled ==
    /\ ToLower(config.Type) = "jmespath" => jmesCompiled # Nil
    /\ ToLower(config.Type) = "jq" => jqCompiled # Nil

----------------------------------------------------------------------------
\* the two scalar scenarios of processor_test.go: the jq sum of the prices
\* of the structured record, and the JMESPath status of the raw record
JqSumScenario ==
    /\ Returned
    /\ config = [Type |-> "jq", Query |-> ".items | map(.price) | add"]
    /\ records = <<RecordPool[2]>>
JmesStatusScenario ==
    /\ Returned
    /\ config = [Type |-> "jmespath", Query |-> "status"]
    /\ records = <<RecordPool[3]>>

----------------------------------------------------------------------------
JqSelected == Called /\ ToLower(config.Type) = "jq" /\ jqCompiled # Nil

\* the result sequence of the compiled jq query on the i-th record
JqItems(i) == jqRun(jqCompiled, Normalized(i).data)

\* C9: with the jq backend one value is taken from the result sequence of
\* each record.  An empty sequence drops the record with "no results"; a
\* first value that is an error drops it, whatever follows in the
\* sequence; otherwise the record's output is made from the first value.
C9_JqFirstValue ==
    JqSelected =>
      /\ Len(pulls) = Len(records)
      /\ \A i \in Indices : Normalizes(i) =>
           /\ pulls[i] = 1
           /\ Len(JqItems(i)) = 0 =>
                /\ OutputsOf(i) = {}
                /\ \E l \in LoggedFor(i) : logged[l].err = "jq query produced no results"
           /\ (Len(JqItems(i)) > 0 /\ ~JqItems(i)[1].ok) =>
                /\ OutputsOf(i) = {}
                /\ \E l \in LoggedFor(i) : logged[l].err = "jq query failed"
           /\ (Len(JqItems(i)) > 0 /\ JqItems(i)[1].ok) =>
                /\ \A j \in OutputsOf(i) :
                      results[j].After = encodeResult(JqItems(i)[1].val).after
                /\ encodeResult(JqItems(i)[1].val).err = "" => OutputsOf(i) # {}

\* a record dropped for a first error value that a non-error value follows
C9_Witness ==
    /\ JqSelected
    /\ \E i \in Indices :
          /\ Normalizes(i)
          /\ Len(JqItems(i)) = 2
          /\ ~JqItems(i)[1].ok
          /\ JqItems(i)[2].ok
          /\ OutputsOf(i) = {}

----------------------------------------------------------------------------
RECURSIVE HasPath(_, _)

\* the chain of keys leads to a value of v
HasPath(fields, v) ==
    \/ fields = <<>>
    \/ /\ v.k = "map"
       /\ Head(fields) \in DOMAIN v.v
       /\ HasPath(Tail(fields), v.v[Head(fields)])

JmesPathSelected ==
    Called /\ ToLower(config.Type) = "jmespath" /\ jmesCompiled.op = "path"

\* C10: with the JMESPath backend, a record whose payload the query's path
\* does not match is not dropped: it has one output record, whose payload
\* is RawData holding the text null.
C10_MissingPathIsNull ==
    JmesPathSelected =>
      \A i \in Indices :
        (Normalizes(i) /\ ~HasPath(jmesCompiled.fields, Normalized(i).data)) =>
          /\ Cardinality(OutputsOf(i)) = 1
          /\ \A j \in OutputsOf(i) : results[j].After = RawData(<<"null">>)

\* the query user.name has run on the raw record, which has no user
C10_Witness ==
    /\ JmesPathSelected
    /\ jmesCompiled.fields = <<"user", "name">>
    /\ \E i \in Indices :
          /\ records[i].After.kind = "RawData"
          /\ Normalizes(i)
          /\ ~HasPath(jmesCompiled.fields, Normalized(i).data)
          /\ OutputsOf(i) # {}

\* the record passed at index i holds a structured payload with a nested
\* StructuredData, map or list in it
HasNested(i) ==
    /\ records[i].After.kind = "StructuredData"
    /\ \E key \in DOMAIN records[i].After.val :
          records[i].After.val[key].k \in {"sdata", "map", "list"}

\* C11: when Process has returned, the caller's slice of records equals the
\* slice that was passed, record by record, with position, payload and
\* everything nested in a structured payload; and every output record has
\* an input record of its position from which it differs in no field but
\* Payload.After.
C11_InputUnchanged ==
    Returned =>
      /\ callerRecords = records
      /\ \A j \in 1..Len(results) :
            /\ HasInput(results[j])
            /\ [results[j] EXCEPT !.After = records[InputIdx(results[j])].After]
                 = records[InputIdx(results[j])]

C11_Witness ==
    /\ Returned
    /\ \E i \in Indices :
          /\ HasNested(i)
          /\ \E key \in DOMAIN records[i].After.val :
                records[i].After.val[key].k = "sdata"
          /\ callerRecords[i] = records[i]
          /\ \E j \in OutputsOf(i) :
                /\ results[j].After # records[i].After
                /\ results[j].Position = records[i].Position
                /\ results[j].Metadata = records[i].Metadata
    /\ \E i \in Indices :
          /\ HasNested(i)
          /\ \E key \in DOMAIN records[i].After.val :
                records[i].After.val[key].k = "list"
          /\ callerRecords[i] = records[i]
          /\ OutputsOf(i) # {}

\* the stored configuration and the compiled queries
Stored == <<config, jmesCompiled, jqCompiled>>

\* the output records that the batch gives when each of its records is
\* evaluated with the configuration cfg and the compiled queries jmes and jq
OutputsWith(cfg, jmes, jq, batch) ==
    LET outs == [i \in 1..Len(batch) |-> processRecord(cfg, jmes, jq, batch[i])]
        oks == SelectSeq([i \in 1..Len(batch) |-> i], LAMBDA i : outs[i].status = "ok")
    IN [j \in 1..Len(oks) |-> outs[oks[j]].rec]

\* C12: a call of Open, Process or Teardown leaves the stored configuration
\* and the compiled queries as they were, and a Process call that returns
\* gives the output of evaluating every record of its batch with the
\* configuration and the compiled query that were stored before the call:
\* those that the last Configure call left.
C12_OnlyConfigureWrites ==
    [][lastCall' # "Configure" =>
         /\ Stored' = Stored
         /\ (lastCall' = "Process" /\ ~panicked') =>
               results' = OutputsWith(config, jmesCompiled, jqCompiled, records')]_vars

\* a batch of two records evaluated with the jq query that Configure
\* compiled and stored without error
C12_Witness ==
    /\ Returned
    /\ ToLower(config.Type) = "jq"
    /\ gojqParse(config.Query).ok
    /\ jqCompiled = gojqParse(config.Query).ast
    /\ Len(records) >= 2
    /\ Len(results) >= 2
    /\ results = OutputsWith(config, jmesCompiled, jqCompiled, records)

====
